---- MODULE Spec2Model ----
(***************************************************************************)
(* The syntax-tree substrate of asena-leaf: GreenTree / AstLeaf            *)
(* (ast/green.rs) and Cursor<T> (ast/cursor.rs).                           *)
(*                                                                         *)
(* Heap model.  An AstLeaf owns two Arc<RwLock<HashMap>> (names, keys);    *)
(* they are created together (GreenTree::new / of / default /              *)
(* as_new_node) and cloned together (#[derive(Clone)]), so one index into  *)
(* `leaves` stands for the pair of Arcs, and a GreenTree::Leaf value is    *)
(* that index: a clone of a Leaf is the same index.  `leaves` holds the    *)
(* Leafs the caller has a handle to; a Leaf built inside a call and        *)
(* reachable only through the cursor that call returns is written by       *)
(* value (OwnLeaf: its data; its names and keys are empty).  A Cursor<T>   *)
(* is an Rc<RefCell<Value<T>>>; one index into `cells` stands for the Rc,  *)
(* and a clone of a Cursor is the same index.  A typed node T is a newtype *)
(* over its GreenTree (struct X(GreenTree)), so Value::Ref(Rc<T>) is       *)
(* recorded by the tree the node wraps.  A panic is recorded in            *)
(* `last.fault`; the heap keeps what the call wrote before it unwound.     *)
(***************************************************************************)
EXTENDS Integers, Sequences, FiniteSets, TLC

\* ------------------------------------------------------------------ bounds
\* GreenTree handles the caller holds, cursor cells alive, compute calls counted.
MaxTrees == 2
MaxCells == 2
MaxCalls == 2
\* Cursor cells alive in the specification of the cursor operations.
MaxCursors == 3

\* ---------------------------------------------------------------- universe
\* LeafKey = &'static str: the child names used by the callers.
Names == {"lhs", "op"}
\* The node types T a Cursor<T> / cache entry can be instantiated with.
Types == {"Expr", "Pat"}
\* Side-table keys (Key::name()) and values (Key::Value); "dflt" is
\* T::Value::default().
Keys == {"scope"}
Vals == {"dflt", "v1"}
DefaultVal == "dflt"
NoVal == "none"

\* Interned trees (Intern<Spanned<Tree>>).  "dflt" is Default::default():
\* no children.  "bin" is a Binary node: lhs -> tree, op -> token `+`.
Datas == {"dflt", "bin", "lit"}
NoName == "-"

DataChildren(d) ==
    IF d = "bin"
    THEN << [c |-> "Tree",  name |-> "lhs",  of |-> "lit"],
            [c |-> "Token", name |-> "op",   of |-> "plus"],
            [c |-> "Tree",  name |-> NoName, of |-> "lit"] >>
    ELSE IF d = "lit"
    THEN << [c |-> "Token", name |-> NoName, of |-> "ten"] >>
    ELSE << >>

NoChild == [c |-> "NoChild", name |-> NoName, of |-> "-"]

RECURSIVE childrenUpTo(_, _, _)
childrenUpTo(d, nm, i) ==
    IF i = 0 THEN NoChild
    ELSE IF DataChildren(d)[i].name = nm THEN DataChildren(d)[i]
    ELSE childrenUpTo(d, nm, i - 1)

\* fn children(data): the HashMap of the named children; a later child of
\* the same name overwrites an earlier one.
children(d) == [nm \in Names |-> childrenUpTo(d, nm, Len(DataChildren(d)))]

\* --------------------------------------------------------------- GreenTree
Leaf(id) == [tag |-> "Leaf", id |-> id, data |-> "-"]
OwnLeaf(d) == [tag |-> "Leaf", id |-> 0, data |-> d]
\* GreenTree::Token(Lexeme<Rc<dyn Any>>): `ty` is the type of the lexeme's value.
TokenTree(ty) == [tag |-> "Token", id |-> 0, data |-> ty]
VecTree == [tag |-> "Vec", id |-> 0, data |-> "-"]
NoneTree == [tag |-> "None", id |-> 0, data |-> "-"]
EmptyTree == [tag |-> "Empty", id |-> 0, data |-> "-"]

NoEntry == [cell |-> 0, ty |-> "-"]
EmptyNames == [nm \in Names |-> NoEntry]
EmptyKeys == [k \in Keys |-> NoVal]

\* The AstLeaf built by GreenTree::new(data).
NewAstLeaf(d) ==
    [data |-> d, synthetic |-> FALSE, children |-> children(d),
     names |-> EmptyNames, keys |-> EmptyKeys, poisoned |-> FALSE]

\* impl Default for GreenTree: a Leaf over the default data, no named
\* children, empty names and keys.
DefaultTree == OwnLeaf("dflt")

\* as_new_node that keeps the names and keys the source has.
AsNewAstLeafKeepingCaches(leaf) ==
    [leaf EXCEPT !.children = children(leaf.data)]

\* GreenTree::as_new_node, Leaf arm: same data, recomputed children, fresh
\* names and keys.
AsNewAstLeaf(leaf) ==
    [data |-> leaf.data, synthetic |-> leaf.synthetic, children |-> children(leaf.data),
     names |-> EmptyNames, keys |-> EmptyKeys, poisoned |-> FALSE]

\* ------------------------------------------------------------------- state
VARIABLES
    leaves,   \* Seq of AstLeaf: the Leafs the caller holds a handle to
    cells,    \* Seq of Value<T>: every cursor cell allocated so far
    last,     \* the last call: what it was applied to and what it returned
    memo,     \* per (leaf, name): compute calls, cursors memoize returned
    ctx,      \* per traversal context: where it is in its memoize call
    chain,    \* the accessor chain sequenced with `?`: steps run, result
    acc,      \* the last read accessor applied to a tree, and its result
    handles,  \* Seq of Cursor<T> values alive: the cell each one points to
    rt,       \* a value taken through unwrap and new: input, tree form, output
    walk,     \* the walk in progress: what is left to walk, the hooks invoked
    trees,    \* Seq of GreenTree values the caller holds: the Leaf each one is
    interned, \* the interner's table, and the handles the last calls returned
    lexed,    \* the source text handed to the lexer and the tokens it produced
    parser    \* the parser: its token stream, its index, the last call's result

\* The state of the front end (interner, lexer, parser).
frontVars == << interned, lexed, parser >>

vars == << leaves, cells, last, memo, ctx, chain, acc, handles, rt, walk, trees, frontVars >>

Green(t) == [v |-> "Green", tree |-> t]
Ref(t) == [v |-> "Ref", tree |-> t]

\* A call record: the operation, the Leaf and name (or key) it was applied to,
\* what it returned (a cell index or a side-table value) and whether it panicked.
Call(op, leaf, name, ret, fault) ==
    [op |-> op, leaf |-> leaf, name |-> name, cell |-> 0, arg |-> 0,
     ret |-> ret, how |-> "-", fault |-> fault]

\* The record of a call on a cursor: the cell it was called on, the cell passed
\* to it, the cell it returned, and how a read produced its value ("derived"
\* from the tree location or the "stored" materialized value).
CursorCall(op, cell, arg, ret, how, fault) ==
    [op |-> op, leaf |-> 0, name |-> NoName, cell |-> cell, arg |-> arg,
     ret |-> ret, how |-> how, fault |-> fault]

NoMemo == [calls |-> 0, rets |-> {}, ins |-> FALSE]

\* The traversal contexts that share the tree.
Contexts == {"resolver", "diagnostics"}
Idle == [pc |-> "idle", name |-> NoName, f |-> "-", depth |-> 0, ret |-> 0]

\* impl Default for Cursor<T> (Cursor::empty()): a cursor over the default tree.
CursorEmptyValue == Green(DefaultTree)
NoValue == [v |-> "-", tree |-> NoneTree]

\* No value has been taken through unwrap and new; no walk has started.
NoRoundTrip ==
    [kind |-> "-", depth |-> 0, ty |-> "-", x |-> << >>, tree |-> NoneTree,
     y |-> << >>, pc |-> "idle"]
\* Nothing has been interned, lexed or parsed.
NoFragment == [kind |-> "-", children |-> << >>]
NoInterned == [table |-> << >>, a |-> 0, b |-> 0, fa |-> NoFragment, fb |-> NoFragment]
NoLexed == [source |-> << >>, tokens |-> << >>]
NoParser ==
    [stream |-> << >>, index |-> 0, help |-> FALSE, op |-> "-", res |-> "-",
     value |-> << >>, before |-> 0, input |-> << >>]
NoWalk == [pc |-> "idle", kind |-> "-", items |-> << >>, i |-> 0, j |-> 0, trace |-> << >>]

Init ==
    /\ leaves = << NewAstLeaf("bin") >>
    /\ cells = << >>
    /\ last = Call("init", 0, NoName, 0, FALSE)
    /\ memo = << [nm \in Names |-> NoMemo] >>
    /\ ctx = [p \in Contexts |-> Idle]
    /\ chain = [outs |-> << >>, done |-> FALSE, res |-> NoValue]
    /\ acc = [fn |-> "-", tree |-> NoneTree, nth |-> 0, kind |-> "-", name |-> NoName,
              ty |-> "-", res |-> FALSE, fault |-> FALSE]
    /\ handles = << >>
    /\ rt = NoRoundTrip
    /\ walk = NoWalk
    /\ trees = << >>
    /\ interned = NoInterned
    /\ lexed = NoLexed
    /\ parser = NoParser

LeafIds == 1..Len(leaves)
CellIds == 1..Len(cells)
CanAllocLeaf == Len(leaves) < MaxTrees
CanAllocCell == Len(cells) < MaxCells

\* A call on the heap of one caller leaves the other machines alone.
HeapOnly == UNCHANGED << ctx, chain, acc, handles, rt, walk, trees, frontVars >>

Bump(n) == IF n < MaxCalls THEN n + 1 ELSE n

\* ------------------------------------------------------- typed conversions
\* Leaf::make(tree) -> Option<T>: Some(T::new(tree)) when the tree's kind is
\* one of T's kinds.  "lit" and "bin" are expression kinds.
make(T, d) == T = "Expr" /\ d \in {"lit", "bin"}

\* ---------------------------------------------------------------- named_at
\* borrow.get(name).and_then(|x| x.downcast_ref::<Cursor<A>>())
NamesGet(leaf, nm, T) ==
    IF leaf.names[nm] # NoEntry /\ leaf.names[nm].ty = T
    THEN leaf.names[nm].cell
    ELSE 0

\* The else-branch of named_at answering a missing name with a cursor over
\* GreenTree::None.
NamedAtDeriveNone(leaf, nm, T) ==
    LET ch == leaf.children[nm] IN
    IF ch.c = "Tree"
    THEN IF make(T, ch.of) THEN Ref(OwnLeaf(ch.of)) ELSE Green(NoneTree)
    ELSE IF ch.c = "Token" THEN Green(DefaultTree)
    ELSE Green(NoneTree)

\* The else-branch of named_at: the slot of the cursor derived from the named
\* children.
NamedAtDerive(leaf, nm, T) ==
    LET ch == leaf.children[nm] IN
    IF ch.c = "Tree"
    THEN IF make(T, ch.of) THEN Ref(OwnLeaf(ch.of)) ELSE Green(NoneTree)
    ELSE Green(DefaultTree)

\* GreenTree::named_at::<T>(name) on Leaf l.
NamedAt(l, nm, T) ==
    LET hit == NamesGet(leaves[l], nm, T) IN
    IF hit # 0
    THEN /\ last' = Call("named_at", l, nm, hit, FALSE)
         /\ UNCHANGED << leaves, cells, memo >>
    ELSE /\ CanAllocCell
         /\ cells' = Append(cells, NamedAtDerive(leaves[l], nm, T))
         /\ last' = Call("named_at", l, nm, Len(cells) + 1, FALSE)
         /\ UNCHANGED << leaves, memo >>

\* ----------------------------------------------------------------- memoize
\* The compute functions handed to memoize.  "named_at" is |t| t.named_at(name);
\* "none" is |_| None.into().
CompFns == {"named_at", "none"}

Compute(f, leaf, nm, T) ==
    IF f = "named_at" THEN NamedAtDerive(leaf, nm, T) ELSE Green(NoneTree)

\* leaf.names_mut().insert(name, Arc::new(cursor))
NamesInsert(leaf, nm, T, c) ==
    [leaf EXCEPT !.names[nm] = [cell |-> c, ty |-> T]]

\* What memoize does when leaf.names().get(name) is Some(x):
\* x.downcast_ref::<Cursor<T>>().unwrap().clone()
MemoizeHit(l, nm, T) ==
    LET e == leaves[l].names[nm] IN
    /\ e # NoEntry
    /\ IF e.ty = T
       THEN /\ last' = Call("memoize", l, nm, e.cell, FALSE)
            /\ memo' = [memo EXCEPT ![l][nm].rets = @ \cup {e.cell}]
       ELSE /\ last' = Call("memoize", l, nm, 0, TRUE)
            /\ UNCHANGED memo
    /\ UNCHANGED << leaves, cells >>

\* What memoize does when the name has no entry: compute, store, return.
MemoizeMiss(l, nm, T, f) ==
    LET c == Len(cells) + 1 IN
    /\ CanAllocCell
    /\ cells' = Append(cells, Compute(f, leaves[l], nm, T))
    /\ leaves' = [leaves EXCEPT ![l] = NamesInsert(@, nm, T, c)]
    /\ memo' = [memo EXCEPT ![l][nm].calls = Bump(@), ![l][nm].rets = @ \cup {c}]
    /\ last' = Call("memoize", l, nm, c, FALSE)

\* memoize without the lookup of the stored entry: it computes and stores on
\* every call.
MemoizeNoLookup(l, nm, T, f) == MemoizeMiss(l, nm, T, f)

\* GreenTree::memoize::<F, T>(name, f) on Leaf l.
Memoize(l, nm, T, f) ==
    IF leaves[l].names[nm] # NoEntry
    THEN MemoizeHit(l, nm, T)
    ELSE MemoizeMiss(l, nm, T, f)

\* ------------------------------------------------------------------ insert
\* GreenTree::insert::<T>(name, value) on Leaf l; `value` wraps the tree v.
Insert(l, nm, T, v) ==
    LET c == Len(cells) + 1 IN
    /\ CanAllocCell
    /\ cells' = Append(cells, Ref(v))
    /\ leaves' = [leaves EXCEPT ![l] = NamesInsert(@, nm, T, c)]
    /\ memo' = [memo EXCEPT ![l][nm].ins = TRUE]
    /\ last' = Call("insert", l, nm, c, FALSE)

\* ------------------------------------------------------------- as_new_node
\* GreenTree::as_new_node on Leaf l; the caller keeps the new tree.
TreeAsNewNode(l) ==
    /\ CanAllocLeaf
    /\ leaves' = Append(leaves, AsNewAstLeaf(leaves[l]))
    /\ memo' = Append(memo, [nm \in Names |-> NoMemo])
    /\ last' = Call("as_new_node", l, NoName, Len(leaves) + 1, FALSE)
    /\ UNCHANGED cells

\* -------------------------------------------------------------- side table
\* insert_key that also drops the named-child cache of the Leaf.
InsertKeyResettingNames(l, k, val) ==
    /\ leaves' = [leaves EXCEPT ![l].keys[k] = val, ![l].names = EmptyNames]
    /\ last' = Call("insert_key", l, k, val, FALSE)
    /\ UNCHANGED << cells, memo >>

\* GreenTree::insert_key(key, value) on Leaf l.  keys_mut() unwraps the lock:
\* a poisoned lock panics.  HashMap::insert returns the previous value, and
\* the code unwraps it: with no previous value it panics while the write
\* guard is held, which poisons the lock; the entry is already stored.
InsertKey(l, k, val) ==
    LET old == leaves[l].keys[k] IN
    IF leaves[l].poisoned
    THEN /\ last' = Call("insert_key", l, k, NoVal, TRUE)
         /\ UNCHANGED << leaves, cells, memo >>
    ELSE /\ leaves' = [leaves EXCEPT ![l].keys[k] = val,
                                     ![l].poisoned = (old = NoVal)]
         /\ last' = Call("insert_key", l, k, old, old = NoVal)
         /\ UNCHANGED << cells, memo >>

\* GreenTree::key(key) on Leaf l.
Key(l, k) ==
    LET old == leaves[l].keys[k] IN
    IF leaves[l].poisoned
    THEN /\ last' = Call("key", l, k, NoVal, TRUE)
         /\ UNCHANGED << leaves, cells, memo >>
    ELSE IF old # NoVal
    THEN /\ last' = Call("key", l, k, old, FALSE)
         /\ UNCHANGED << leaves, cells, memo >>
    ELSE /\ leaves' = [leaves EXCEPT ![l].keys[k] = DefaultVal,
                                     ![l].poisoned = TRUE]
         /\ last' = Call("key", l, k, NoVal, TRUE)
         /\ UNCHANGED << cells, memo >>

\* ------------------------------------------------------------------- Spec
\* The named-child cache of the Leafs of one caller: every call runs to
\* completion before the next starts.
Next ==
    \/ \E l \in LeafIds, nm \in Names, f \in CompFns : Memoize(l, nm, "Expr", f) /\ HeapOnly
    \/ \E l \in LeafIds, nm \in Names, v \in LeafIds : Insert(l, nm, "Expr", Leaf(v)) /\ HeapOnly
    \/ \E l \in LeafIds, nm \in Names : NamedAt(l, nm, "Expr") /\ HeapOnly
    \/ \E l \in LeafIds : TreeAsNewNode(l) /\ HeapOnly

Spec == Init /\ [][Next]_vars

\* C1: over the memoize(name, f) calls on a Leaf with no insert for that name,
\* the compute function has run exactly once and every call returned the one
\* cell the cache holds for the name (so a write through one returned cursor
\* is read through every other).
MemoizeComputesOnce ==
    \A l \in LeafIds, nm \in Names :
        (~memo[l][nm].ins /\ memo[l][nm].rets # {}) =>
            /\ memo[l][nm].calls = 1
            /\ memo[l][nm].rets = {leaves[l].names[nm].cell}

\* A later memoize call for a name returned the cell an earlier call stored.
MemoizeSecondCallSeen ==
    \E l \in LeafIds, nm \in Names :
        /\ ~memo[l][nm].ins
        /\ memo[l][nm].calls = 1
        /\ last = Call("memoize", l, nm, leaves[l].names[nm].cell, FALSE)
        /\ last.ret < Len(cells)

NextDetach ==
    \/ \E l \in LeafIds, nm \in Names : Memoize(l, nm, "Expr", "named_at") /\ HeapOnly
    \/ \E l \in LeafIds, nm \in Names : Insert(l, nm, "Expr", OwnLeaf("lit")) /\ HeapOnly
    \/ \E l \in LeafIds : TreeAsNewNode(l) /\ HeapOnly
    \/ \E l \in LeafIds, k \in Keys : InsertKey(l, k, "v1") /\ HeapOnly
    \/ \E l \in LeafIds, k \in Keys : Key(l, k) /\ HeapOnly

SpecDetach == Init /\ [][NextDetach]_vars

\* C2: n2 = n.as_new_node() starts with empty names and keys, has n's data,
\* and leaves n as it was; afterwards a call on one Leaf changes no entry,
\* data or named child of any other Leaf (n against n2 and n2 against n).
DetachIsolation ==
    [][/\ last'.op = "as_new_node" =>
            /\ last'.ret = Len(leaves) + 1
            /\ leaves'[last'.ret].names = EmptyNames
            /\ leaves'[last'.ret].keys = EmptyKeys
            /\ ~leaves'[last'.ret].poisoned
            /\ leaves'[last'.ret].data = leaves[last'.leaf].data
            /\ leaves'[last'.ret].children = leaves[last'.leaf].children
            /\ \A l \in LeafIds : leaves'[l] = leaves[l]
       /\ last'.op \in {"memoize", "insert", "insert_key", "key"} =>
            /\ Len(leaves') = Len(leaves)
            /\ \A l \in LeafIds \ {last'.leaf} : leaves'[l] = leaves[l]
            /\ leaves'[last'.leaf].data = leaves[last'.leaf].data
            /\ leaves'[last'.leaf].children = leaves[last'.leaf].children]_vars

\* A Leaf with a cached name and a side-table entry has just been detached.
DetachedFromPopulated ==
    /\ last.op = "as_new_node"
    /\ leaves[last.leaf].names # EmptyNames
    /\ leaves[last.leaf].keys # EmptyKeys
    /\ leaves[last.ret].names = EmptyNames
    /\ leaves[last.ret].keys = EmptyKeys

\* ------------------------------------------------------------------ Cursor
CanAllocCursor == Len(cells) < MaxCursors

\* Cursor::new(tree): a cursor over a tree location.
CursorNew(t) ==
    /\ CanAllocCursor
    /\ cells' = Append(cells, Green(t))
    /\ last' = CursorCall("new", 0, 0, Len(cells) + 1, "-", FALSE)
    /\ UNCHANGED << leaves, memo >>

\* Cursor::of(value): a cursor over a materialized value; `value` wraps t.
CursorOf(t) ==
    /\ CanAllocCursor
    /\ cells' = Append(cells, Ref(t))
    /\ last' = CursorCall("of", 0, 0, Len(cells) + 1, "-", FALSE)
    /\ UNCHANGED << leaves, memo >>

\* a.set(b) as an exchange of the two slots.
CursorSetSwapping(a, b) ==
    /\ cells' = [cells EXCEPT ![a] = cells[b], ![b] = cells[a]]
    /\ last' = CursorCall("set", a, b, 0, "-", FALSE)
    /\ UNCHANGED << leaves, memo >>

\* Cursor::set: self.value.replace(value.value.borrow().clone()).  The borrow
\* of the argument lives to the end of the statement, so when both cursors
\* share one cell RefCell::replace panics (already borrowed).
CursorSet(a, b) ==
    /\ IF a = b
       THEN /\ last' = CursorCall("set", a, b, 0, "-", TRUE)
            /\ UNCHANGED cells
       ELSE /\ cells' = [cells EXCEPT ![a] = cells[b]]
            /\ last' = CursorCall("set", a, b, 0, "-", FALSE)
    /\ UNCHANGED << leaves, memo >>

\* replace that stores the tree of the value as a tree location.
CursorReplaceLazily(a, t) ==
    /\ cells' = [cells EXCEPT ![a] = Green(t)]
    /\ last' = CursorCall("replace", a, 0, 0, "-", FALSE)
    /\ UNCHANGED << leaves, memo >>

\* Cursor::replace(value): the slot becomes Value::Ref(Rc::new(value)).
CursorReplace(a, t) ==
    /\ cells' = [cells EXCEPT ![a] = Ref(t)]
    /\ last' = CursorCall("replace", a, 0, 0, "-", FALSE)
    /\ UNCHANGED << leaves, memo >>

\* Cursor::as_leaf on a slot: the stored Rc<T>, or T::new(green.clone()).
as_leaf(val) ==
    IF val.v = "Green"
    THEN [how |-> "derived", node |-> val.tree]
    ELSE [how |-> "stored", node |-> val.tree]

\* Cursor::replace_rc(rc), with rc = b.as_leaf().
CursorReplaceRc(a, b) ==
    /\ cells' = [cells EXCEPT ![a] = Ref(as_leaf(cells[b]).node)]
    /\ last' = CursorCall("replace_rc", a, b, 0, "-", FALSE)
    /\ UNCHANGED << leaves, memo >>

\* Cursor::as_new_node: a new cell holding a clone of the slot.
CursorAsNewNode(a) ==
    /\ CanAllocCursor
    /\ cells' = Append(cells, cells[a])
    /\ last' = CursorCall("cursor_as_new_node", a, 0, Len(cells) + 1, "-", FALSE)
    /\ UNCHANGED << leaves, memo >>

\* Cursor::as_leaf.
CursorAsLeaf(a) ==
    /\ last' = CursorCall("as_leaf", a, 0, 0, as_leaf(cells[a]).how, FALSE)
    /\ UNCHANGED << leaves, cells, memo >>

NextCursor ==
    \/ \E l \in LeafIds, nm \in Names : Memoize(l, nm, "Expr", "named_at") /\ HeapOnly
    \/ \E t \in {Leaf(1), NoneTree} : CursorNew(t) /\ HeapOnly
    \/ \E t \in {Leaf(1)} : CursorOf(t) /\ HeapOnly
    \/ \E a \in CellIds, b \in CellIds : CursorSet(a, b) /\ HeapOnly
    \/ \E a \in CellIds, t \in {OwnLeaf("lit")} : CursorReplace(a, t) /\ HeapOnly
    \/ \E a \in CellIds, b \in CellIds : CursorReplaceRc(a, b) /\ HeapOnly
    \/ \E a \in CellIds : CursorAsNewNode(a) /\ HeapOnly
    \/ \E a \in CellIds : CursorAsLeaf(a) /\ HeapOnly

SpecCursor == Init /\ [][NextCursor]_vars

\* C3: the cursor Cursor::as_new_node returns is over a tree whose named-child
\* cache and side table are empty, whatever the source's tree has cached.
CursorDetachStartsEmpty ==
    last.op = "cursor_as_new_node" =>
        LET t == cells[last.ret].tree IN
        (t.tag = "Leaf" /\ t.id # 0) =>
            /\ leaves[t.id].names = EmptyNames
            /\ leaves[t.id].keys = EmptyKeys

\* C9 as stated: a slot that holds a materialized value holds one after every
\* later call, set with another cursor included.
MaterializedStaysMaterialized ==
    [][\A c \in CellIds : cells[c].v = "Ref" => cells'[c].v = "Ref"]_vars

\* C9 amended: a materialized slot stops being materialized only by a set
\* whose argument is a cursor over a tree location (set copies that slot);
\* and as_leaf returns the stored value exactly when the slot is materialized.
MaterializedUntilSetFromLazy ==
    [][/\ \A c \in CellIds :
            (cells[c].v = "Ref" /\ cells'[c].v # "Ref") =>
                /\ last'.op = "set" /\ last'.cell = c /\ ~last'.fault
                /\ last'.arg \in CellIds
                /\ cells[last'.arg].v = "Green"
       /\ last'.op = "as_leaf" =>
            ((last'.how = "stored") <=> (cells[last'.cell].v = "Ref"))]_vars

\* A slot that was written by replace or of has been read, next to a lazy one.
MaterializedReadSeen ==
    /\ last.op = "as_leaf"
    /\ last.how = "stored"
    /\ cells[last.cell].v = "Ref"
    /\ \E c \in CellIds : cells[c].v = "Green"

\* C10: a.set(b) on distinct cells makes a's slot a copy of b's and leaves b's
\* slot as it was; a set, replace or replace_rc on one cell changes no other
\* cell (so a and b stay independent after the copy).
SetCopiesSlot ==
    [][/\ (last'.op = "set" /\ ~last'.fault) =>
            /\ last'.cell # last'.arg
            /\ cells'[last'.cell] = cells[last'.arg]
            /\ cells'[last'.arg] = cells[last'.arg]
       /\ last'.op \in {"set", "replace", "replace_rc"} =>
            /\ Len(cells') = Len(cells)
            /\ \A c \in CellIds \ {last'.cell} : cells'[c] = cells[c]]_vars

\* a.set(b) has copied a materialized slot into a cell that differs from b's.
SetCopySeen ==
    /\ last.op = "set"
    /\ ~last.fault
    /\ last.cell # last.arg
    /\ cells[last.cell] = cells[last.arg]
    /\ cells[last.arg].v = "Ref"

\* ------------------------------------------------------ Try for Cursor<T>
\* The steps of a chain written `a()?.b()?.c()?`.
ChainSteps == 3

\* branch with GreenTree::None taken as a value to continue with.
branchThroughNone(val, T) ==
    IF val.v = "Ref" THEN [flow |-> "Continue", node |-> val.tree]
    ELSE IF val.tree.tag \in {"Leaf", "None"}
         THEN [flow |-> "Continue", node |-> val.tree]
    ELSE IF val.tree.tag = "Token" /\ val.tree.data = T
         THEN [flow |-> "Continue", node |-> val.tree]
    ELSE [flow |-> "Break", node |-> NoneTree]

\* Try::branch for Cursor<T>: a Leaf location continues with T::new(leaf), a
\* Token continues when its value downcasts to T, Empty and None break, and
\* a materialized value continues with the stored Rc.
branch(val, T) ==
    IF val.v = "Ref" THEN [flow |-> "Continue", node |-> val.tree]
    ELSE IF val.tree.tag = "Leaf"
         THEN [flow |-> "Continue", node |-> val.tree]
    ELSE IF val.tree.tag = "Token" /\ val.tree.data = T
         THEN [flow |-> "Continue", node |-> val.tree]
    ELSE [flow |-> "Break", node |-> NoneTree]

\* FromResidual::from_residual(None) = Cursor::empty().
from_residual == CursorEmptyValue

\* Try::from_output(rc) = Cursor::from(rc): a materialized value.
from_output(node) == Ref(node)

\* What one accessor of the chain can hand to `?`.
StepOutcomes ==
    { Green(NoneTree), Green(EmptyTree), CursorEmptyValue, Green(OwnLeaf("lit")),
      Green(TokenTree("Expr")), Green(TokenTree("Pat")), Ref(OwnLeaf("lit")) }

\* One step of the chain: the accessor is evaluated to `o`, then `?` branches
\* on it; a Break returns from_residual, the last Continue is wrapped by
\* from_output.
ChainStep(o) ==
    /\ ~chain.done
    /\ Len(chain.outs) < ChainSteps
    /\ LET b == branch(o, "Expr")
           n == Len(chain.outs) + 1
       IN chain' = [outs |-> Append(chain.outs, o),
                    done |-> (b.flow = "Break" \/ n = ChainSteps),
                    res  |-> IF b.flow = "Break" THEN from_residual
                             ELSE IF n = ChainSteps THEN from_output(b.node)
                             ELSE NoValue]
    /\ UNCHANGED << leaves, cells, last, memo, ctx, acc, handles, rt, walk, trees, frontVars >>

NextChain ==
    \/ \E o \in StepOutcomes : ChainStep(o)

SpecChain == Init /\ [][NextChain]_vars

\* C6: when the first step of the chain yields a cursor over GreenTree::None,
\* the chain is over after that step, no second or third step is evaluated,
\* and its result is the cursor Cursor::empty() builds.
AbsentFirstStepShortCircuits ==
    (Len(chain.outs) >= 1 /\ chain.outs[1] = Green(NoneTree)) =>
        /\ chain.done
        /\ Len(chain.outs) = 1
        /\ chain.res = CursorEmptyValue

\* The chain has ended on an absent first step.
AbsentFirstStepSeen ==
    /\ chain.done
    /\ chain.outs = << Green(NoneTree) >>
    /\ chain.res = CursorEmptyValue

\* C7: when a step returns the cursor accessors return on failure
\* (Cursor::empty()), the chain ends at that step with an empty cursor and no
\* later step is evaluated.
FailedStepShortCircuits ==
    \A i \in 1..Len(chain.outs) :
        chain.outs[i] = CursorEmptyValue =>
            /\ chain.done
            /\ Len(chain.outs) = i
            /\ chain.res = CursorEmptyValue

\* ------------------------------------------------- memoize, step by step
\* The contexts that are inside the compute function of their memoize call.
InCompute == {q \in Contexts : ctx[q].pc = "in_f"}

\* memoize up to the call of f, by context p on Leaf 1: the lookup under the
\* read lock.  A stored entry is returned; otherwise the lock is released and
\* f(tree) starts.  A context starts a call while every other call in
\* progress is inside its f (f runs the traversal that makes the inner call).
MemoEnter(p, nm, f) ==
    LET e == leaves[1].names[nm] IN
    /\ ctx[p].pc = "idle"
    /\ IF e # NoEntry
       THEN /\ ctx' = [ctx EXCEPT ![p] = [pc |-> "done", name |-> nm, f |-> f,
                                         depth |-> 0, ret |-> e.cell]]
            /\ memo' = [memo EXCEPT ![1][nm].rets = @ \cup {e.cell}]
       ELSE /\ ctx' = [ctx EXCEPT ![p] = [pc |-> "in_f", name |-> nm, f |-> f,
                                         depth |-> Cardinality(InCompute) + 1,
                                         ret |-> 0]]
            /\ UNCHANGED memo
    /\ UNCHANGED << leaves, cells, last, chain, acc, handles, rt, walk, trees, frontVars >>

\* memoize from the return of f: the cursor f computed is stored under the
\* write lock, whatever the name holds by now, and returned.  The innermost
\* call in progress is the one that can return.
MemoFinish(p) ==
    LET c  == Len(cells) + 1
        nm == ctx[p].name
    IN
    /\ ctx[p].pc = "in_f"
    /\ ctx[p].depth = Cardinality(InCompute)
    /\ CanAllocCell
    /\ cells' = Append(cells, Compute(ctx[p].f, leaves[1], nm, "Expr"))
    /\ leaves' = [leaves EXCEPT ![1] = NamesInsert(@, nm, "Expr", c)]
    /\ memo' = [memo EXCEPT ![1][nm].calls = Bump(@), ![1][nm].rets = @ \cup {c}]
    /\ ctx' = [ctx EXCEPT ![p].pc = "done", ![p].depth = 0, ![p].ret = c]
    /\ UNCHANGED << last, chain, acc, handles, rt, walk, trees, frontVars >>

\* The caller of memoize goes on with the cursor it was handed.
MemoLeave(p) ==
    /\ ctx[p].pc = "done"
    /\ ctx' = [ctx EXCEPT ![p] = Idle]
    /\ UNCHANGED << leaves, cells, last, memo, chain, acc, handles, rt, walk, trees, frontVars >>

NextRace ==
    \/ \E p \in Contexts, nm \in Names, f \in CompFns : MemoEnter(p, nm, f)
    \/ \E p \in Contexts : MemoFinish(p)
    \/ \E p \in Contexts : MemoLeave(p)

SpecRace == Init /\ [][NextRace]_vars

\* C5: two contexts whose memoize calls on one name of one Leaf interleave are
\* handed the same cursor, and at most one entry is ever stored for the name.
MemoizeRaceConverges ==
    /\ \A p \in Contexts, q \in Contexts :
            (ctx[p].pc = "done" /\ ctx[q].pc = "done" /\ ctx[p].name = ctx[q].name)
                => ctx[p].ret = ctx[q].ret
    /\ \A nm \in Names : memo[1][nm].calls <= 1

\* ------------------------------------------------------- read accessors
\* TokenKind of the tokens in the interned trees, and TreeKind::Error.
TokenKinds == {"plus", "ten"}
ErrorKind == "Error"
\* Intern<Spanned<Token>>::default().
DefaultToken == [c |-> "Token", name |-> NoName, of |-> "dflt"]
NoChildren == [some |-> FALSE, list |-> << >>]
Nths == {0, 1}

\* The AstLeaf behind a GreenTree::Leaf value.
LeafOf(t) == IF t.id # 0 THEN leaves[t.id] ELSE NewAstLeaf(t.data)

\* Tree::matches(nth, kind): the nth child is a token of that kind.
TreeMatches(d, nth, k) ==
    /\ nth < Len(DataChildren(d))
    /\ DataChildren(d)[nth + 1].c = "Token"
    /\ DataChildren(d)[nth + 1].of = k

\* Tree::is_single(): the tree has one child.
TreeIsSingle(d) == Len(DataChildren(d)) = 1

\* Tree::token(kind): the token children of that kind, in order.
TreeToken(d, k) == SelectSeq(DataChildren(d), LAMBDA ch : ch.c = "Token" /\ ch.of = k)

\* Terminal::terminal(token) -> Option<A>: the token is a literal of A.
Terminal(A, tok) == A = "Expr" /\ tok = "ten"

\* Tree::at::<T>(nth): a cursor to the nth child tree that is a T.
TreeAt(d, nth, T) ==
    LET ts == SelectSeq(DataChildren(d), LAMBDA ch : ch.c = "Tree" /\ make(T, ch.of)) IN
    IF nth < Len(ts) THEN Ref(OwnLeaf(ts[nth + 1].of)) ELSE CursorEmptyValue

\* Tree::terminal::<T>(nth): a cursor to the nth child when it is a terminal of T.
TreeTerminal(d, nth, T) ==
    IF /\ nth < Len(DataChildren(d))
       /\ DataChildren(d)[nth + 1].c = "Token"
       /\ Terminal(T, DataChildren(d)[nth + 1].of)
    THEN Ref(TokenTree(T))
    ELSE CursorEmptyValue

\* A materialized Vec<T>: Value::Ref(Rc<Vec<T>>); each element is recorded by
\* the tree it wraps.
VecRef(items) == [v |-> "Ref", tree |-> VecTree, items |-> items]

\* Tree::filter::<T>(): a cursor over the list of the child trees that are a T.
TreeFilter(d, T) ==
    LET ts == SelectSeq(DataChildren(d), LAMBDA ch : ch.c = "Tree" /\ make(T, ch.of)) IN
    VecRef([i \in 1..Len(ts) |-> OwnLeaf(ts[i].of)])

\* Tree::filter_terminal::<T>(): a cursor over the list of the child tokens
\* that are a terminal of T.
TreeFilterTerminal(d, T) ==
    LET ts == SelectSeq(DataChildren(d), LAMBDA ch : ch.c = "Token" /\ Terminal(T, ch.of)) IN
    VecRef([i \in 1..Len(ts) |-> TokenTree(T)])

\* GreenTree::kind.
kind(t) == IF t.tag = "Leaf" THEN LeafOf(t).data ELSE ErrorKind

\* GreenTree::children.
tree_children(t) ==
    IF t.tag = "Leaf"
    THEN [some |-> TRUE, list |-> DataChildren(LeafOf(t).data)]
    ELSE NoChildren

\* GreenTree::is_single.
is_single(t) ==
    IF t.tag = "Leaf" THEN TreeIsSingle(LeafOf(t).data)
    ELSE IF t.tag = "Token" THEN TRUE
    ELSE FALSE

\* GreenTree::matches.
matches(t, nth, k) ==
    IF t.tag = "Leaf" THEN TreeMatches(LeafOf(t).data, nth, k) ELSE FALSE

\* GreenTree::filter.
filter(t, T) ==
    IF t.tag = "Leaf" THEN TreeFilter(LeafOf(t).data, T) ELSE CursorEmptyValue

\* GreenTree::any_token.
any_token(t, k) ==
    IF t.tag = "Leaf" THEN TreeToken(LeafOf(t).data, k) ELSE << >>

\* GreenTree::token: the first token of the kind, or the default token.
token(t, k) ==
    IF t.tag = "Leaf"
    THEN IF TreeToken(LeafOf(t).data, k) # << >>
         THEN Head(TreeToken(LeafOf(t).data, k))
         ELSE DefaultToken
    ELSE DefaultToken

\* GreenTree::terminal.
terminal(t, nth, T) ==
    IF t.tag = "Leaf" THEN TreeTerminal(LeafOf(t).data, nth, T) ELSE CursorEmptyValue

\* GreenTree::filter_terminal.
filter_terminal(t, T) ==
    IF t.tag = "Leaf" THEN TreeFilterTerminal(LeafOf(t).data, T) ELSE CursorEmptyValue

\* at that answers with a cursor over GreenTree::None off a Leaf.
atOrNone(t, nth, T) ==
    IF t.tag = "Leaf" THEN TreeAt(LeafOf(t).data, nth, T) ELSE Green(NoneTree)

\* GreenTree::at.
at(t, nth, T) ==
    IF t.tag = "Leaf" THEN TreeAt(LeafOf(t).data, nth, T) ELSE CursorEmptyValue

\* GreenTree::has.
has(t, nm) ==
    IF t.tag = "Leaf" THEN LeafOf(t).children[nm] # NoChild ELSE FALSE

\* GreenTree::named_at: the slot of the cursor it returns.
named_at(t, nm, T) ==
    IF t.tag = "Leaf"
    THEN IF NamesGet(LeafOf(t), nm, T) # 0
         THEN cells[NamesGet(LeafOf(t), nm, T)]
         ELSE NamedAtDerive(LeafOf(t), nm, T)
    ELSE CursorEmptyValue

\* The type Lexeme<A> of a cache entry.
LexemeOf(A) == IF A = "Expr" THEN "Lexeme<Expr>" ELSE "Lexeme<Pat>"

\* GreenTree::named_terminal: a cached Cursor<Lexeme<A>>, or the cursor
\* derived from the named children (Lexeme::<A>::terminal(token).into()).
named_terminal(t, nm, A) ==
    IF t.tag = "Leaf"
    THEN IF NamesGet(LeafOf(t), nm, LexemeOf(A)) # 0
         THEN cells[NamesGet(LeafOf(t), nm, LexemeOf(A))]
         ELSE LET ch == LeafOf(t).children[nm] IN
              IF ch.c = "Token"
              THEN IF Terminal(A, ch.of) THEN Ref(TokenTree(A)) ELSE Green(NoneTree)
              ELSE CursorEmptyValue
    ELSE CursorEmptyValue

\* The record of a read accessor call: the tree it was called on, its
\* arguments and what it returned.  No arm of an accessor unwraps or indexes,
\* and no call panics while it holds the write guard of `names`, so the
\* names().unwrap() of has, named_at and named_terminal finds no poisoned lock.
Accessed(fn, t, nth, k, nm, T, res) ==
    /\ acc' = [fn |-> fn, tree |-> t, nth |-> nth, kind |-> k, name |-> nm,
               ty |-> T, res |-> res, fault |-> FALSE]
    /\ UNCHANGED << leaves, cells, last, memo, ctx, chain, handles, rt, walk, trees, frontVars >>

\* The trees the accessors are called on: the caller's Leaf, a Leaf over a
\* literal, and every other variant.
Trees == {Leaf(1), OwnLeaf("lit"), VecTree, TokenTree("Expr"), NoneTree, EmptyTree}

NextAccess ==
    \/ \E nm \in Names : Memoize(1, nm, "Expr", "named_at") /\ HeapOnly
    \/ \E t \in Trees : Accessed("kind", t, 0, "-", NoName, "-", kind(t))
    \/ \E t \in Trees : Accessed("children", t, 0, "-", NoName, "-", tree_children(t))
    \/ \E t \in Trees : Accessed("is_single", t, 0, "-", NoName, "-", is_single(t))
    \/ \E t \in Trees, n \in Nths, k \in TokenKinds :
            Accessed("matches", t, n, k, NoName, "-", matches(t, n, k))
    \/ \E t \in Trees, T \in Types : Accessed("filter", t, 0, "-", NoName, T, filter(t, T))
    \/ \E t \in Trees, n \in Nths, T \in Types :
            Accessed("at", t, n, "-", NoName, T, at(t, n, T))
    \/ \E t \in Trees, n \in Nths, T \in Types :
            Accessed("terminal", t, n, "-", NoName, T, terminal(t, n, T))
    \/ \E t \in Trees, T \in Types :
            Accessed("filter_terminal", t, 0, "-", NoName, T, filter_terminal(t, T))
    \/ \E t \in Trees, k \in TokenKinds : Accessed("token", t, 0, k, NoName, "-", token(t, k))
    \/ \E t \in Trees, k \in TokenKinds :
            Accessed("any_token", t, 0, k, NoName, "-", any_token(t, k))
    \/ \E t \in Trees, nm \in Names : Accessed("has", t, 0, "-", nm, "-", has(t, nm))
    \/ \E t \in Trees, nm \in Names, T \in Types :
            Accessed("named_at", t, 0, "-", nm, T, named_at(t, nm, T))
    \/ \E t \in Trees, nm \in Names, T \in Types :
            Accessed("named_terminal", t, 0, "-", nm, T, named_terminal(t, nm, T))

SpecAccess == Init /\ [][NextAccess]_vars

\* The empty result of the type each accessor returns.
EmptyResult(fn) ==
    CASE fn = "kind" -> ErrorKind
      [] fn = "children" -> NoChildren
      [] fn \in {"is_single", "matches", "has", "-"} -> FALSE
      [] fn = "token" -> DefaultToken
      [] fn = "any_token" -> << >>
      [] OTHER -> CursorEmptyValue

\* C8 as stated: no accessor call faults, and on a tree that is not a Leaf
\* every accessor returns the empty result of its type.
AccessorsEmptyOffLeaf ==
    /\ ~acc.fault
    /\ acc.tree.tag # "Leaf" => acc.res = EmptyResult(acc.fn)

\* C8 amended: no accessor call faults, and on a tree that is not a Leaf every
\* accessor returns the empty result of its type, except is_single, which
\* returns true on a Token.
AccessorsEmptyOffLeafButSingleToken ==
    /\ ~acc.fault
    /\ acc.tree.tag # "Leaf" =>
            IF acc.fn = "is_single" /\ acc.tree.tag = "Token"
            THEN acc.res = TRUE
            ELSE acc.res = EmptyResult(acc.fn)

\* at has been called on a tree that is not a Leaf and answered with the
\* empty cursor.
AccessorOffLeafSeen ==
    /\ acc.fn = "at"
    /\ acc.tree.tag \in {"Vec", "Token", "None", "Empty"}
    /\ acc.res = CursorEmptyValue

\* --------------------------------------------------- clones of a Cursor
\* Cursor<T> values alive at once.
MaxHandles == 3

Handle(c, how, h) == [cell |-> c, how |-> how, of |-> h]
HandleIds == 1..Len(handles)
CanAllocHandle == Len(handles) < MaxHandles
OtherMachines == UNCHANGED << ctx, chain, acc, rt, walk, trees, frontVars >>

\* The trees of the values handed to replace.
ReplaceTrees == {OwnLeaf("lit")}

\* clone that copies the slot into a cell of its own.
CursorCloneDeep(h) ==
    /\ CanAllocHandle
    /\ CanAllocCursor
    /\ cells' = Append(cells, cells[handles[h].cell])
    /\ handles' = Append(handles, Handle(Len(cells) + 1, "clone", h))
    /\ last' = CursorCall("clone", handles[h].cell, 0, Len(cells) + 1, "-", FALSE)
    /\ UNCHANGED << leaves, memo >>

\* impl Clone for Cursor<T>: value: self.value.clone(), the same Rc.
CursorClone(h) ==
    /\ CanAllocHandle
    /\ handles' = Append(handles, Handle(handles[h].cell, "clone", h))
    /\ last' = CursorCall("clone", handles[h].cell, 0, handles[h].cell, "-", FALSE)
    /\ UNCHANGED << leaves, cells, memo >>

\* Cursor::new, kept by the caller.
HandleNew(t) ==
    /\ CanAllocHandle
    /\ CursorNew(t)
    /\ handles' = Append(handles, Handle(Len(cells) + 1, "new", 0))

\* h.as_new_node(), kept by the caller.
HandleAsNewNode(h) ==
    /\ CanAllocHandle
    /\ CursorAsNewNode(handles[h].cell)
    /\ handles' = Append(handles, Handle(Len(cells) + 1, "detach", h))

\* a.set(b), a.replace(value) and a.as_leaf() through the caller's cursors.
HandleSet(a, b) == CursorSet(handles[a].cell, handles[b].cell) /\ UNCHANGED handles
HandleReplace(a, t) == CursorReplace(handles[a].cell, t) /\ UNCHANGED handles
HandleAsLeaf(a) == CursorAsLeaf(handles[a].cell) /\ UNCHANGED handles

NextClone ==
    \/ \E t \in {Leaf(1)} : HandleNew(t) /\ OtherMachines
    \/ \E h \in HandleIds : CursorClone(h) /\ OtherMachines
    \/ \E h \in HandleIds : HandleAsNewNode(h) /\ OtherMachines
    \/ \E a \in HandleIds, b \in HandleIds : HandleSet(a, b) /\ OtherMachines
    \/ \E a \in HandleIds, t \in ReplaceTrees : HandleReplace(a, t) /\ OtherMachines
    \/ \E a \in HandleIds : HandleAsLeaf(a) /\ OtherMachines

SpecClone == Init /\ [][NextClone]_vars

\* A clone points to the cell of the cursor it was cloned from; the cursor
\* as_new_node returns points to a cell of its own.
ClonesShareCell ==
    \A g \in HandleIds :
        /\ handles[g].how = "clone" => handles[g].cell = handles[handles[g].of].cell
        /\ handles[g].how = "detach" => handles[g].cell # handles[handles[g].of].cell

\* C11: after a set or replace through one cursor, every cursor that is a clone
\* of it reads the new content and nothing else (the slot is the argument's
\* slot, or the materialized value), and every cursor on another cell, the
\* ones as_new_node returned included, reads what it read before.
WriteSeenByClones ==
    [][/\ ClonesShareCell'
       /\ last'.op \in {"set", "replace"} =>
            \A g \in HandleIds :
                IF handles[g].cell = last'.cell
                THEN IF last'.op = "set"
                     THEN cells'[handles'[g].cell] = cells[last'.arg]
                     ELSE cells'[handles'[g].cell] \in {Ref(t) : t \in ReplaceTrees}
                ELSE cells'[handles'[g].cell] = cells[handles[g].cell]]_vars

\* A replace went through a cursor that has a clone and a detached copy: the
\* clone reads the new value, the detached copy the old one.
CloneSawWrite ==
    /\ last.op = "replace"
    /\ \E g \in HandleIds, d \in HandleIds :
        /\ handles[g].how = "clone" /\ handles[g].cell = last.cell
        /\ handles[d].how = "detach" /\ handles[handles[d].of].cell = last.cell
        /\ cells[handles[g].cell].v = "Ref"
        /\ cells[handles[d].cell].v = "Green"

\* ------------------------------------------------------------ side table
\* C12: key(k) on a Leaf does not fault, and it returns the value the side
\* table holds for k afterwards (the default value when k had no entry).
KeyCreatesDefault ==
    last.op = "key" =>
        /\ ~last.fault
        /\ last.ret = leaves[last.leaf].keys[last.name]

\* C13: insert_key(k, v) on a Leaf does not fault and returns v, the value
\* the side table holds for k afterwards.
InsertKeyReturnsValue ==
    last.op = "insert_key" =>
        /\ ~last.fault
        /\ last.ret = leaves[last.leaf].keys[last.name]

\* C14: insert_key and key change no Leaf's data, named children or
\* named-child cache and no cursor cell; memoize and insert change no
\* side-table entry.
SideTableFrame ==
    [][/\ last'.op \in {"insert_key", "key"} =>
            /\ cells' = cells
            /\ Len(leaves') = Len(leaves)
            /\ \A l \in LeafIds :
                /\ leaves'[l].data = leaves[l].data
                /\ leaves'[l].synthetic = leaves[l].synthetic
                /\ leaves'[l].children = leaves[l].children
                /\ leaves'[l].names = leaves[l].names
       /\ last'.op \in {"memoize", "insert"} =>
            /\ Len(leaves') = Len(leaves)
            /\ \A l \in LeafIds : leaves'[l].keys = leaves[l].keys]_vars

\* insert_key has written the side table of a Leaf that has a cached name.
SideTableWrittenNextToCache ==
    /\ last.op = "insert_key"
    /\ leaves[last.leaf].keys[last.name] = "v1"
    /\ leaves[last.leaf].names # EmptyNames

\* ---------------------------------------------------------------- named_at
\* C15: on a Leaf whose child of the given name is a token, named_at returns
\* a cursor that holds that token as a materialized value, not the empty
\* cursor.
NamedAtTokenMaterializes ==
    (/\ acc.fn = "named_at"
     /\ acc.tree.tag = "Leaf"
     /\ LeafOf(acc.tree).children[acc.name].c = "Token") =>
        /\ acc.res # CursorEmptyValue
        /\ acc.res.v = "Ref"
        /\ acc.res.tree.tag = "Token"

\* C16: on a Leaf that has no child of the given name and no cache entry for
\* it, named_at returns the cursor Cursor::empty() builds, for every node
\* type, and does not fault.
NamedAtMissingIsEmpty ==
    (/\ acc.fn = "named_at"
     /\ acc.tree.tag = "Leaf"
     /\ LeafOf(acc.tree).children[acc.name] = NoChild
     /\ LeafOf(acc.tree).names[acc.name] = NoEntry) =>
        /\ ~acc.fault
        /\ acc.res = CursorEmptyValue

\* named_at has been asked, for a pattern, for a name the Leaf does not have.
NamedAtMissingSeen ==
    /\ acc.fn = "named_at"
    /\ acc.tree = OwnLeaf("lit")
    /\ acc.ty = "Pat"
    /\ LeafOf(acc.tree).children[acc.name] = NoChild
    /\ acc.res = CursorEmptyValue

\* ------------------------------------------------ Node::new / Node::unwrap
\* Option<..Option<T>..> is nested at most this deep.
MaxOptionDepth == 3

\* A value of type Option^n<T> is written as the sequence of its
\* constructors: Some(Some(v)) is << OptSome, OptSome, t >> with t the tree
\* the typed node v wraps, Some(None) is << OptSome, OptNone >>.
OptSome == [tag |-> "OptSome", id |-> 0, data |-> "-"]
OptNone == [tag |-> "OptNone", id |-> 0, data |-> "-"]

\* The trees a typed node T can wrap (T::new takes any GreenTree).
NodeTrees ==
    {NoneTree, EmptyTree, VecTree, OwnLeaf("dflt"), OwnLeaf("lit"), OwnLeaf("bin"),
     TokenTree("Expr"), TokenTree("Pat")}

RECURSIVE OptionValues(_)
OptionValues(n) ==
    IF n = 0 THEN {<< t >> : t \in NodeTrees}
    ELSE {<< OptNone >>} \cup {<< OptSome >> \o v : v \in OptionValues(n - 1)}

\* Node::unwrap for Option<T>: Some(v) => v.unwrap(), None => GreenTree::None;
\* a typed node unwraps to the tree it wraps.
RECURSIVE OptionUnwrap(_)
OptionUnwrap(x) ==
    IF Head(x) = OptSome THEN OptionUnwrap(Tail(x))
    ELSE IF Head(x) = OptNone THEN NoneTree
    ELSE Head(x)

\* Node::new for Option<T>: None and Empty => None, _ => Some(T::new(tree)).
RECURSIVE OptionNew(_, _)
OptionNew(n, t) ==
    IF n = 0 THEN << t >>
    ELSE IF t.tag \in {"None", "Empty"} THEN << OptNone >>
    ELSE << OptSome >> \o OptionNew(n - 1, t)

\* Lexeme<T> { token, value, is_none } and impl Default for Lexeme<T>.
Lexeme(tok, val, b) == [token |-> tok, value |-> val, is_none |-> b]
LexemeDefault == Lexeme("dflt", "dflt", FALSE)

\* GreenTree::Token(Lexeme { token, value: Rc<dyn Any>, is_none }); T is the
\* type of the value behind the Rc.
LexemeTree(T, x) ==
    [tag |-> "Token", id |-> 0, data |-> T, token |-> x.token, value |-> x.value,
     is_none |-> x.is_none]

\* Node::unwrap for Lexeme<T>.
LexemeUnwrap(T, x) == LexemeTree(T, x)

\* Node::new for Lexeme<T>: a Leaf gives its first token and T::make(tree) or
\* the default value; a Token gives its token and its value when that is a T,
\* with is_none false; None gives the placeholder; anything else the default.
LexemeNew(T, t) ==
    IF t.tag = "Leaf"
    THEN Lexeme(IF DataChildren(t.data) = << >> THEN "dflt" ELSE Head(DataChildren(t.data)).of,
                IF make(T, t.data) THEN t.data ELSE "dflt",
                FALSE)
    ELSE IF t.tag = "Token"
    THEN IF t.data = T THEN Lexeme(t.token, t.value, FALSE) ELSE LexemeDefault
    ELSE IF t.tag = "None" THEN Lexeme("dflt", "dflt", TRUE)
    ELSE LexemeDefault

\* The lexemes Lexeme::<T>::new builds from the trees it is given.
LexemeTrees ==
    {NoneTree, EmptyTree, OwnLeaf("lit"), OwnLeaf("dflt"),
     LexemeTree("Expr", Lexeme("ten", "v10", FALSE)),
     LexemeTree("Pat", Lexeme("plus", "v10", FALSE))}

RoundTrip(knd, n, T, x, t, y, pc) ==
    /\ rt' = [kind |-> knd, depth |-> n, ty |-> T, x |-> x, tree |-> t, y |-> y, pc |-> pc]
    /\ UNCHANGED << leaves, cells, last, memo, ctx, chain, acc, handles, walk, trees, frontVars >>

\* The caller holds an Option value x.
TakeOption(n, x) == RoundTrip("option", n, "-", x, NoneTree, << >>, "taken")

\* The caller holds the lexeme Lexeme::<T>::new(t).
TakeLexeme(T, t) == RoundTrip("lexeme", 0, T, LexemeNew(T, t), NoneTree, << >>, "taken")

\* x.unwrap()
Unwrap ==
    /\ rt.pc = "taken"
    /\ RoundTrip(rt.kind, rt.depth, rt.ty, rt.x,
                 IF rt.kind = "option" THEN OptionUnwrap(rt.x) ELSE LexemeUnwrap(rt.ty, rt.x),
                 rt.y, "unwrapped")

\* Node::new(tree) on the tree x unwrapped to.
Rebuild ==
    /\ rt.pc = "unwrapped"
    /\ RoundTrip(rt.kind, rt.depth, rt.ty, rt.x, rt.tree,
                 IF rt.kind = "option" THEN OptionNew(rt.depth, rt.tree)
                 ELSE LexemeNew(rt.ty, rt.tree),
                 "rebuilt")

NextRoundTrip ==
    \/ \E n \in 1..MaxOptionDepth : \E x \in OptionValues(n) : TakeOption(n, x)
    \/ \E T \in Types, t \in LexemeTrees : TakeLexeme(T, t)
    \/ Unwrap
    \/ Rebuild

SpecRoundTrip == Init /\ [][NextRoundTrip]_vars

\* C17: an Option value taken through unwrap and new is rebuilt as it was:
\* None as None, Some(v) as Some(T::new(v.unwrap())), also when the tree v
\* unwraps to is None or Empty.
OptionRoundTrip ==
    (rt.kind = "option" /\ rt.pc = "rebuilt") => rt.y = rt.x

\* C18: a lexeme taken through unwrap and new has the token, the value and
\* the placeholder flag it had.
LexemeRoundTrip ==
    (rt.kind = "lexeme" /\ rt.pc = "rebuilt") =>
        /\ rt.y.token = rt.x.token
        /\ rt.y.value = rt.x.value
        /\ rt.y.is_none = rt.x.is_none

\* ------------------------------------------------------- Cursor<Vec<T>>
\* skip is called with at most this many elements to skip.
MaxSkip == 3

\* Node::new for Vec<T>: Empty, None and Token give the empty list; a Leaf
\* gives one element per child, T::new(tree) for a tree and
\* T::terminal(token).unwrap_or_default() for a token.
VecNew(T, t) ==
    IF t.tag = "Leaf"
    THEN [i \in 1..Len(DataChildren(LeafOf(t).data)) |->
            LET ch == DataChildren(LeafOf(t).data)[i] IN
            IF ch.c = "Tree" THEN OwnLeaf(ch.of)
            ELSE IF Terminal(T, ch.of) THEN TokenTree(T)
            ELSE DefaultTree]
    ELSE << >>

\* Cursor::as_leaf for a Cursor<Vec<T>>: the stored list, or Vec::new(green).
VecAsLeaf(T, val) == IF val.v = "Green" THEN VecNew(T, val.tree) ELSE val.items

\* Value::green: the tree location, or the tree the materialized node unwraps to.
green(val) == val.tree

\* Cursor::is_none.
is_none(val) == green(val).tag = "None"

\* first that answers an empty list with Cursor::empty().
firstOrEmpty(T, val) ==
    IF VecAsLeaf(T, val) = << >> THEN CursorEmptyValue ELSE Ref(Head(VecAsLeaf(T, val)))

\* Cursor<Vec<T>>::first: self.as_leaf().first().cloned().into(); None becomes
\* a cursor over GreenTree::None, Some(v) becomes Cursor::of(v).
first(T, val) ==
    IF VecAsLeaf(T, val) = << >> THEN Green(NoneTree) ELSE Ref(Head(VecAsLeaf(T, val)))

\* Cursor<Vec<T>>::skip(n): Cursor::of of the elements after the first n.
skip(T, val, n) ==
    VecRef(SubSeq(VecAsLeaf(T, val), n + 1, Len(VecAsLeaf(T, val))))

\* The trees filter is called on: the accessors' trees, a Leaf over the
\* default tree (no children) and a Leaf over a binary node.
VecTrees == Trees \cup {OwnLeaf("dflt"), OwnLeaf("bin")}

\* c.first() and c.skip(n) on the list cursor the last call returned.
First ==
    /\ acc.fn \in {"filter", "skip"}
    /\ Accessed("first", acc.tree, acc.nth, "-", NoName, acc.ty, first(acc.ty, acc.res))

Skip(n) ==
    /\ acc.fn \in {"filter", "skip"}
    /\ Accessed("skip", acc.tree, n, "-", NoName, acc.ty, skip(acc.ty, acc.res, n))

NextVec ==
    \/ \E t \in VecTrees, T \in Types : Accessed("filter", t, 0, "-", NoName, T, filter(t, T))
    \/ First
    \/ \E n \in 0..MaxSkip : Skip(n)

SpecVec == Init /\ [][NextVec]_vars

\* C19: the cursor filter returns on a tree that is not a Leaf, or on a Leaf
\* without children, materializes to the empty list without a fault; first of
\* it (or of a skip of it) is a cursor for which is_none is true, and skip(n)
\* of it materializes to the empty list for every n.
EmptyFilterStaysEmpty ==
    (acc.tree.tag # "Leaf" \/ DataChildren(LeafOf(acc.tree).data) = << >>) =>
        /\ ~acc.fault
        /\ acc.fn \in {"filter", "skip"} => VecAsLeaf(acc.ty, acc.res) = << >>
        /\ acc.fn = "first" => is_none(acc.res)

\* first has been taken of the list filter returned on GreenTree::None.
FirstOfEmptySeen ==
    /\ acc.fn = "first"
    /\ acc.tree = NoneTree
    /\ is_none(acc.res)

\* ---------------------------------------------------------------- Walkable
\* Declarations of a file, elements of a walked list.
MaxDecls == 3

\* The declarations walked: one without typed children, one with a body.
DeclShapes == {"signature", "assign"}
ChildrenOf(d) == IF d = "assign" THEN 1 ELSE 0

RECURSIVE DeclSeqs(_)
DeclSeqs(n) ==
    IF n = 0 THEN {<< >>}
    ELSE DeclSeqs(n - 1) \cup
         {Append(ds, d) : ds \in {s \in DeclSeqs(n - 1) : Len(s) = n - 1}, d \in DeclShapes}

Hook(h, i) == [hook |-> h, of |-> i]

Walking(pc, knd, items, i, j, trace) ==
    /\ walk' = [pc |-> pc, kind |-> knd, items |-> items, i |-> i, j |-> j, trace |-> trace]
    /\ UNCHANGED << leaves, cells, last, memo, ctx, chain, acc, handles, rt, trees, frontVars >>

\* file.walk(walker), vec.walk(walker) and option.walk(walker) are called.
\* AsenaFile::walk iterates self.declarations(); an Option is walked as its
\* value when it is Some and as nothing when it is None.
StartWalk(knd, items) ==
    /\ walk.pc = "idle"
    /\ knd = "option" => Len(items) <= 1
    /\ Walking("loop", knd, items, 1, 1, << >>)

\* The loop that stops one element short.
LoopDoneEarly == walk.i >= Len(walk.items)

\* `for ele in self`: no element is left.
LoopDone == walk.i > Len(walk.items)

\* decl.walk(walker): the typed children of the declaration are walked in
\* order, each invoking its hook ...
WalkChild ==
    /\ walk.pc = "loop"
    /\ ~LoopDone
    /\ walk.j <= ChildrenOf(walk.items[walk.i])
    /\ Walking("loop", walk.kind, walk.items, walk.i, walk.j + 1,
               Append(walk.trace, Hook("walk_expr", walk.i)))

\* ... then the hook of the declaration is invoked and the loop goes on to
\* the next element.
WalkDecl ==
    /\ walk.pc = "loop"
    /\ ~LoopDone
    /\ walk.j > ChildrenOf(walk.items[walk.i])
    /\ Walking("loop", walk.kind, walk.items, walk.i + 1, 1,
               Append(walk.trace, Hook("walk_decl", walk.i)))

\* After the loop AsenaFile::walk calls walker.walk_file(self); the walk of a
\* Vec or an Option returns.
WalkReturn ==
    /\ walk.pc = "loop"
    /\ LoopDone
    /\ Walking("done", walk.kind, walk.items, walk.i, walk.j,
               IF walk.kind = "file"
               THEN Append(walk.trace, Hook("walk_file", 0))
               ELSE walk.trace)

NextWalk ==
    \/ \E knd \in {"file", "vec", "option"}, ds \in DeclSeqs(MaxDecls) : StartWalk(knd, ds)
    \/ WalkChild
    \/ WalkDecl
    \/ WalkReturn

SpecWalk == Init /\ [][NextWalk]_vars

\* The hooks of the trace that are declaration hooks, and those that are not
\* the file hook.
DeclHooks == SelectSeq(walk.trace, LAMBDA e : e.hook = "walk_decl")
ElementHooks == SelectSeq(walk.trace, LAMBDA e : e.hook # "walk_file")

\* C20: the declarations (elements) are walked in index order, each exactly
\* once and each completely before the next; walk_file is invoked exactly
\* once, after the last declaration, and only by the walk of a file; the walk
\* of None invokes no hook.
WalkInOrder ==
    /\ \A n \in 1..Len(DeclHooks) : DeclHooks[n].of = n
    /\ \A n \in 1..Len(ElementHooks) : \A k \in 1..n : ElementHooks[k].of <= ElementHooks[n].of
    /\ \A n \in 1..Len(walk.trace) :
            walk.trace[n].hook = "walk_file" =>
                /\ walk.kind = "file"
                /\ n = Len(walk.trace)
                /\ Len(DeclHooks) = Len(walk.items)
    /\ walk.pc = "done" =>
            /\ Len(DeclHooks) = Len(walk.items)
            /\ walk.kind = "file" => walk.trace[Len(walk.trace)].hook = "walk_file"
            /\ (walk.kind = "option" /\ walk.items = << >>) => walk.trace = << >>

\* A file of two declarations has been walked to the end.
FileWalked ==
    /\ walk.pc = "done"
    /\ walk.kind = "file"
    /\ Len(walk.items) = 2
    /\ walk.trace[Len(walk.trace)].hook = "walk_file"

\* ---------------------------------------------------------------- Interner
\* Distinct fragments the table holds.
MaxInterned == 3

\* A fragment: a token, or a node of a kind over children that are handles.
Fragment(k, chs) == [kind |-> k, children |-> chs]
InternedIds == 1..Len(interned.table)
Fragments ==
    {Fragment(k, << >>) : k \in {"ten", "plus"}}
    \cup {Fragment("bin", << c >>) : c \in InternedIds}
    \cup {Fragment("bin", << c, d >>) : c \in InternedIds, d \in InternedIds}

\* The handle the table holds for a fragment, 0 when it holds none.
Lookup(f) ==
    IF \E i \in InternedIds : interned.table[i] = f
    THEN CHOOSE i \in InternedIds : interned.table[i] = f
    ELSE 0

\* intern that adds an entry for every fragment it is handed.
InternAlwaysNew(f) ==
    /\ Len(interned.table) < MaxInterned
    /\ interned' = [table |-> Append(interned.table, f),
                    a |-> Len(interned.table) + 1, fa |-> f,
                    b |-> interned.a, fb |-> interned.fa]
    /\ UNCHANGED << leaves, cells, last, memo, ctx, chain, acc, handles, rt, walk, trees,
                    lexed, parser >>

\* intern(fragment) -> Handle: the handle of the structurally equal fragment
\* the table holds, or a new handle for a fragment it does not hold.  The
\* last two calls are kept: their fragments and the handles they returned.
Intern(f) ==
    /\ Lookup(f) = 0 => Len(interned.table) < MaxInterned
    /\ interned' = [table |-> IF Lookup(f) = 0 THEN Append(interned.table, f)
                              ELSE interned.table,
                    a |-> IF Lookup(f) = 0 THEN Len(interned.table) + 1 ELSE Lookup(f),
                    fa |-> f,
                    b |-> interned.a, fb |-> interned.fa]
    /\ UNCHANGED << leaves, cells, last, memo, ctx, chain, acc, handles, rt, walk, trees,
                    lexed, parser >>

\* hash(handle): the hash of the identity of the interned object.
HandleHash(h) == h

NextIntern ==
    \/ \E f \in Fragments : Intern(f)

SpecIntern == Init /\ [][NextIntern]_vars

\* C21: two intern calls return equal handles, with equal hashes, exactly when
\* their fragments are structurally equal; the table holds no fragment twice
\* and a handle keeps the fragment it was given for.
InternIdempotent ==
    /\ \A i \in InternedIds, j \in InternedIds :
            interned.table[i] = interned.table[j] => i = j
    /\ interned.a # 0 => interned.table[interned.a] = interned.fa
    /\ interned.b # 0 =>
            /\ interned.table[interned.b] = interned.fb
            /\ (interned.fa = interned.fb) <=> (interned.a = interned.b)
            /\ (interned.fa = interned.fb) => HandleHash(interned.a) = HandleHash(interned.b)

\* A node fragment has been interned twice in a row, after other fragments.
InternedTwice ==
    /\ interned.b # 0
    /\ interned.fa = interned.fb
    /\ interned.fa.kind = "bin"
    /\ interned.a = interned.b
    /\ Len(interned.table) > 1

\* ------------------------------------------------------------------- Lexer
\* Characters of a source text.
MaxSource == 3

\* The characters a source is written in: a letter, a digit, the symbol
\* characters `.`, `+` and `:`, the brackets, the comma and the blank.
Chars == {"a", "1", ".", "+", ":", "(", ")", ",", " "}
Sources == UNION {[1..n -> Chars] : n \in 1..MaxSource}

SYMBOLS == {"=", "!", ">", "<", "$", "#", "+", "-", "*", "/", "&", "|", "@", "^", ".", ":"}
\* The characters control_lexer's one_of accepts.
ControlChars == {"(", ")", "[", "]", "{", "}", ";", ","}
\* The characters the match of control_lexer has an arm for.
ControlToken(c) ==
    CASE c = "[" -> "LeftBracket"
      [] c = "]" -> "RightBracket"
      [] c = "{" -> "LeftBrace"
      [] c = "}" -> "RightBrace"
      [] c = "(" -> "LeftParen"
      [] c = ")" -> "RightParen"
      [] c = ";" -> "Semi"
      [] c = "," -> "Comma"
      [] c = ":" -> "Colon"
      [] c = "." -> "Dot"
      [] OTHER -> "unreachable"
ControlTokens ==
    {"LeftBracket", "RightBracket", "LeftBrace", "RightBrace", "LeftParen", "RightParen",
     "Semi", "Comma", "Colon", "Dot"}
Digits == {"1"}
Letters == {"a"}

LexToken(k, text) == [kind |-> k, text |-> text]

\* The length of the longest prefix of s made of characters of set.
RECURSIVE Run(_, _)
Run(s, set) ==
    IF s # << >> /\ Head(s) \in set THEN 1 + Run(Tail(s), set) ELSE 0

Drop(s, n) == SubSeq(s, n + 1, Len(s))

\* num: text::int(10), then `.` and text::digits(10) when both are there.
NumLen(s) ==
    LET n == Run(s, Digits)
        rest == Drop(s, n)
    IN IF rest # << >> /\ Head(rest) = "." /\ Run(Tail(rest), Digits) > 0
       THEN n + 1 + Run(Tail(rest), Digits)
       ELSE n

\* lexer(): blanks are padding; a token is the first of control_lexer, symbol,
\* num and ident_lexer that accepts at the position.
RECURSIVE lexer(_)
lexer(s) ==
    IF s = << >> THEN << >>
    ELSE IF Head(s) = " " THEN lexer(Tail(s))
    ELSE IF Head(s) \in ControlChars
         THEN << LexToken(ControlToken(Head(s)), << Head(s) >>) >> \o lexer(Tail(s))
    ELSE IF Head(s) \in SYMBOLS
         THEN << LexToken("Symbol", SubSeq(s, 1, Run(s, SYMBOLS))) >>
              \o lexer(Drop(s, Run(s, SYMBOLS)))
    ELSE IF Head(s) \in Digits
         THEN << LexToken("Float64", SubSeq(s, 1, NumLen(s))) >> \o lexer(Drop(s, NumLen(s)))
    ELSE << LexToken("Ident", SubSeq(s, 1, Run(s, Letters \cup Digits))) >>
         \o lexer(Drop(s, Run(s, Letters \cup Digits)))

\* One run of the lexer over a source.
LexSource(src) ==
    /\ lexed' = [source |-> src, tokens |-> lexer(src)]
    /\ UNCHANGED << leaves, cells, last, memo, ctx, chain, acc, handles, rt, walk, trees,
                    interned, parser >>

NextLexer ==
    \/ \E src \in Sources : LexSource(src)

SpecLexer == Init /\ [][NextLexer]_vars

\* How many elements of a sequence satisfy being in a set.
RECURSIVE Count(_, _)
Count(s, set) ==
    IF s = << >> THEN 0
    ELSE (IF Head(s) \in set THEN 1 ELSE 0) + Count(Tail(s), set)

KindsOf(toks) == [i \in 1..Len(toks) |-> toks[i].kind]

\* C30: every control character of a source lexes to its dedicated control
\* token and is never part of a Symbol token; in particular the token stream
\* has one Dot for each `.` of the source.
ControlCharsLexToControlTokens ==
    /\ \A c \in Chars :
            ControlToken(c) \in ControlTokens =>
                Count(lexed.source, {c}) = Count(KindsOf(lexed.tokens), {ControlToken(c)})
    /\ \A i \in 1..Len(lexed.tokens) :
            lexed.tokens[i].kind = "Symbol" =>
                \A j \in 1..Len(lexed.tokens[i].text) :
                    ControlToken(lexed.tokens[i].text[j]) \notin ControlTokens

\* ------------------------------------------------------------------ Parser
\* Tokens of a stream handed to Parser::new.
MaxTokens == 4

\* The tokens of a stream, by variant.  Token (lexer.rs) has no variant Help:
\* with that enum the pattern `Help` of Parser::primary is a binding that
\* takes every token the arms before it did not.  A parser is built either
\* for that enum or for one that has the variant (help); the streams hold no
\* Help token.
Tokens == {"Ident", "Symbol", "Dot", "Float64", "LeftParen", "RightParen"}
TokenStreams == UNION {[1..n -> Tokens] : n \in 0..MaxTokens}
LiteralTokens == {"Float64"}

\* What a parser function leaves behind: how it ended (Ok, Err, or Panic for
\* an unwrap of None), the stream and the index it left, and its value (the
\* expression in preorder, or the ParseError).
Parsed(st, stream, index, value) ==
    [st |-> st, stream |-> stream, index |-> index, value |-> value]

\* Parser::next: index += 1, then stream.next().unwrap().
next(p) ==
    IF p.stream = << >>
    THEN Parsed("Panic", << >>, p.index + 1, << >>)
    ELSE Parsed("Ok", Tail(p.stream), p.index + 1, << Head(p.stream) >>)

\* Parser::peek: stream.peek().unwrap().clone().
peek(p) ==
    IF p.stream = << >>
    THEN Parsed("Panic", << >>, p.index, << >>)
    ELSE Parsed("Ok", p.stream, p.index, << Head(p.stream) >>)

\* Parser::end_diagnostic: Err(stream.peek().unwrap().replace(error)).
end_diagnostic(p, error) ==
    IF p.stream = << >>
    THEN Parsed("Panic", << >>, p.index, << >>)
    ELSE Parsed("Err", p.stream, p.index, << error >>)

\* Parser::eat, for a predicate that accepts the tokens of a set.
eat(p, accepts) ==
    IF peek(p).st = "Panic" THEN peek(p)
    ELSE IF Head(p.stream) \in accepts
         THEN Parsed("Ok", next(p).stream, next(p).index, << "id" >>)
         ELSE Parsed("Err", p.stream, p.index, << "UnexpectedToken" >>)

identifier(p) == eat(p, {"Ident", "Symbol"})
expect(p, tok) == eat(p, {tok})

\* catch that turns every failure of f into Ok(None).
catchEveryErr(current_index, r) ==
    IF r.st = "Ok" THEN [r EXCEPT !.value = << "Some" >> \o r.value]
    ELSE IF r.st = "Err" THEN [r EXCEPT !.st = "Ok", !.value = << "None" >>]
    ELSE r

\* Parser::catch, given the index before the call of f and what f left.
catch(current_index, r) ==
    IF r.st = "Ok" THEN [r EXCEPT !.value = << "Some" >> \o r.value]
    ELSE IF r.st = "Err" /\ r.index = current_index
         THEN [r EXCEPT !.st = "Ok", !.value = << "None" >>]
    ELSE r

\* The `while let Token::Dot = self.peek().value()` loop of the Ident arm.
RECURSIVE PathLoop(_, _)
PathLoop(p, path) ==
    IF peek(p).st = "Panic" THEN peek(p)
    ELSE IF Head(p.stream) = "Dot"
         THEN LET fn_id == identifier(next(p))
              IN IF fn_id.st = "Ok"
                 THEN PathLoop(fn_id, path \o << "dot", "id" >>)
                 ELSE fn_id
    ELSE Parsed("Ok", p.stream, p.index, path)

RECURSIVE expr(_, _), binary(_, _), BinaryLoop(_, _, _), app(_, _), AppLoop(_, _, _),
          primary(_, _), GroupedAfter(_)

\* The LeftParen arm, given what expr left: expect(RightParen), then Group.
GroupOf(e, closed) ==
    IF e.st # "Ok" THEN e
    ELSE IF closed.st # "Ok" THEN closed
    ELSE Parsed("Ok", closed.stream, closed.index, << "Group" >> \o e.value)

\* The Help arm, given what expr left.
HelpOf(e) ==
    IF e.st # "Ok" THEN e ELSE Parsed("Ok", e.stream, e.index, << "Help" >> \o e.value)

\* The Ident arm, given what identifier left.
GlobalOf(ident) ==
    IF ident.st = "Ok" THEN PathLoop(ident, << "Global", "id" >>) ELSE ident

\* The literal arms, given what next left.
LiteralOf(skipped) == Parsed("Ok", skipped.stream, skipped.index, << "Literal" >>)

\* Parser::primary.
primary(p, help) ==
    IF p.stream = << >> THEN peek(p)
    ELSE IF Head(p.stream) \in LiteralTokens THEN LiteralOf(next(p))
    ELSE IF Head(p.stream) = "Ident" THEN GlobalOf(identifier(p))
    ELSE IF Head(p.stream) = "LeftParen" THEN GroupedAfter(expr(next(p), help))
    ELSE IF Head(p.stream) = "Help" \/ ~help THEN HelpOf(expr(next(p), help))
    ELSE end_diagnostic(p, "CantParsePrimary")

\* expect(RightParen) after the expression of a group.
GroupedAfter(e) == GroupOf(e, IF e.st = "Ok" THEN expect(e, "RightParen") ELSE e)

\* The `while let Some(argument) = self.catch(Parser::primary)?` loop, given
\* what catch left.
AppLoopOn(argument, callee, help) ==
    IF argument.st # "Ok" THEN argument
    ELSE IF Head(argument.value) = "Some"
         THEN AppLoop(argument, << "App" >> \o callee \o Tail(argument.value), help)
    ELSE Parsed("Ok", argument.stream, argument.index, callee)

AppLoop(p, callee, help) == AppLoopOn(catch(p.index, primary(p, help)), callee, help)

\* Parser::app, given what the first primary left.
AppOn(callee, help) ==
    IF callee.st # "Ok" THEN callee ELSE AppLoop(callee, callee.value, help)

app(p, help) == AppOn(primary(p, help), help)

\* The loop of Parser::binary after the app of a right operand.
BinaryRhs(rhs, lhs, help) ==
    IF rhs.st # "Ok" THEN rhs
    ELSE BinaryLoop(rhs, << "Binary" >> \o lhs \o rhs.value, help)

\* The loop of Parser::binary, given what next left: the test for a Symbol
\* comes after the token is taken.
BinaryLoopOn(taken, lhs, help) ==
    IF taken.st = "Panic" THEN taken
    ELSE IF taken.value = << "Symbol" >> THEN BinaryRhs(app(taken, help), lhs, help)
    ELSE Parsed("Ok", taken.stream, taken.index, lhs)

BinaryLoop(p, lhs, help) == BinaryLoopOn(next(p), lhs, help)

\* Parser::binary, given what the app of the left operand left.
BinaryOn(lhs, help) ==
    IF lhs.st # "Ok" THEN lhs ELSE BinaryLoop(lhs, lhs.value, help)

binary(p, help) == BinaryOn(app(p, help), help)

\* Parser::expr.
expr(p, help) == binary(p, help)

\* The functions of a parser; catch is called on each function it can wrap.
ParserFns == {"expr", "primary", "identifier", "expect"}
CaughtFns == {"primary", "identifier", "expect"}
RunFn(fn, p, help) ==
    CASE fn = "expr" -> expr(p, help)
      [] fn = "primary" -> primary(p, help)
      [] fn = "identifier" -> identifier(p)
      [] fn = "expect" -> expect(p, "RightParen")

\* A parser after a call: what the call left, with the stream and the index
\* it started from.
AfterCall(op, r) ==
    [stream |-> r.stream, index |-> r.index, help |-> parser.help, op |-> op,
     res |-> r.st, value |-> r.value, before |-> parser.index, input |-> parser.stream]

ParserIdle == UNCHANGED << leaves, cells, last, memo, ctx, chain, acc, handles, rt, walk,
                           trees, interned, lexed >>

\* Parser::new.
ParserNew(stream, help) ==
    /\ parser = NoParser
    /\ parser' = [NoParser EXCEPT !.stream = stream, !.help = help, !.op = "new",
                                  !.input = stream]
    /\ ParserIdle

\* One call of a parser function; a parser that panicked is gone.
ParserCall(fn) ==
    /\ parser.op # "-"
    /\ parser.res # "Panic"
    /\ parser' = AfterCall(fn, RunFn(fn, parser, parser.help))
    /\ ParserIdle

\* One call of catch(f).
ParserCatch(fn) ==
    /\ parser.op # "-"
    /\ parser.res # "Panic"
    /\ parser' = AfterCall("catch_" \o fn, catch(parser.index, RunFn(fn, parser, parser.help)))
    /\ ParserIdle

NextParser ==
    \/ /\ parser = NoParser
       /\ \E help \in BOOLEAN : \E stream \in TokenStreams : ParserNew(stream, help)
    \/ \E fn \in ParserFns : ParserCall(fn)
    \/ \E fn \in CaughtFns : ParserCatch(fn)

SpecParser == Init /\ [][NextParser]_vars

\* `Nat.+ 10 10`, in the characters of the sources.
NatPlusSource == << "a", ".", "+", " ", "1", " ", "1" >>

\* A qualified path after its first identifier: `.` and a name, repeated.
IsPathTail(q) ==
    /\ Len(q) % 2 = 0
    /\ \A i \in 1..Len(q) :
            IF i % 2 = 1 THEN q[i] = "Dot" ELSE q[i] \in {"Ident", "Symbol"}

\* The tokens of a well-formed application: a qualified name and literal
\* arguments, or what the lexer makes of `Nat.+ 10 10`.
WellFormedApplication(s) ==
    \/ s = KindsOf(lexer(NatPlusSource))
    \/ /\ s # << >>
       /\ Head(s) = "Ident"
       /\ \E k \in 1..(Len(s) - 1) :
            /\ IsPathTail(SubSeq(s, 2, k))
            /\ \A i \in (k + 1)..Len(s) : s[i] \in LiteralTokens

\* The tokens an expression in preorder stands for.
RECURSIVE TokensIn(_)
TokensIn(value) ==
    IF value = << >> THEN 0
    ELSE (CASE Head(value) \in {"Literal", "id", "dot", "Binary", "Help"} -> 1
            [] Head(value) = "Group" -> 2
            [] OTHER -> 0)
         + TokensIn(Tail(value))

\* C22: Parser::expr on the whole token stream of a well-formed application
\* returns Ok, also when the stream ends right after the last operand.
ExprOfApplicationIsOk ==
    (parser.op = "expr" /\ parser.before = 0 /\ WellFormedApplication(parser.input))
        => parser.res = "Ok"

\* C24: an expression that parsed took from the stream the tokens it is made
\* of and no other, and `(` e `)` parses to Group(e), its `)` being the last
\* token taken.
BinaryTakesOnlySymbols ==
    /\ (parser.op = "expr" /\ parser.res = "Ok")
            => parser.index - parser.before = TokensIn(parser.value)
    /\ (/\ parser.op = "primary"
        /\ Len(parser.input) >= 3
        /\ SubSeq(parser.input, 1, 3) = << "LeftParen", "Float64", "RightParen" >>)
            => /\ parser.res = "Ok"
               /\ parser.value = << "Group", "Literal" >>
               /\ parser.index = parser.before + 3

\* The parser a call started from.
ParserBefore == [stream |-> parser.input, index |-> parser.before]

\* C25: catch(f) returns Ok(None) only when f failed with the stream and the
\* index where they were; when f fails after taking a token catch returns
\* that Err; eat takes one token when its predicate accepts and none when it
\* rejects.
CatchAndEat ==
    /\ \A fn \in CaughtFns :
            parser.op = "catch_" \o fn =>
                LET r == RunFn(fn, ParserBefore, parser.help)
                IN /\ (parser.res = "Ok" /\ parser.value = << "None" >>)
                        => /\ r.st = "Err"
                           /\ parser.index = parser.before
                           /\ parser.stream = parser.input
                   /\ (r.st = "Err" /\ r.index > parser.before)
                        => (parser.res = "Err" /\ parser.value = r.value)
    /\ \A fn \in {"identifier", "expect"} :
            parser.op = fn =>
                LET accepts == IF fn = "expect" THEN {"RightParen"} ELSE {"Ident", "Symbol"}
                IN /\ parser.res = "Ok"
                        => /\ Head(parser.input) \in accepts
                           /\ parser.index = parser.before + 1
                           /\ parser.stream = Tail(parser.input)
                   /\ parser.res = "Err"
                        => /\ Head(parser.input) \notin accepts
                           /\ parser.index = parser.before
                           /\ parser.stream = parser.input

\* catch has returned the Err of a primary that failed after taking tokens,
\* on a parser that had taken tokens before.
CatchReturnedErr ==
    /\ parser.op = "catch_primary"
    /\ parser.res = "Err"
    /\ parser.before > 0
    /\ parser.index > parser.before

\* ------------------------------------------------- cache entries and types
\* The named-child cache of one caller's Leafs, read and written for the
\* node types of Types.
NextTyped ==
    \/ \E l \in LeafIds, nm \in Names, T \in Types, f \in CompFns :
            Memoize(l, nm, T, f) /\ HeapOnly
    \/ \E l \in LeafIds, nm \in Names, T \in Types :
            Insert(l, nm, T, OwnLeaf("lit")) /\ HeapOnly
    \/ \E l \in LeafIds, nm \in Names, T \in Types : NamedAt(l, nm, T) /\ HeapOnly

SpecTyped == Init /\ [][NextTyped]_vars

\* C23: no memoize call faults, whatever the type of the entry the cache
\* holds for the name, and every memoize call returns a cursor.
MemoizeTotalUnderMismatch ==
    last.op = "memoize" => (~last.fault /\ last.ret \in CellIds)

\* --------------------------------------------------------------------- has
\* GreenTree::new(data): a Leaf over a parsed tree, kept by the caller.
TreeNew(d) ==
    /\ CanAllocLeaf
    /\ leaves' = Append(leaves, NewAstLeaf(d))
    /\ memo' = Append(memo, [nm \in Names |-> NoMemo])
    /\ last' = Call("new", 0, NoName, Len(leaves) + 1, FALSE)
    /\ UNCHANGED cells

\* GreenTree::has(name) on Leaf l; the call record keeps the answer.
Has(l, nm) ==
    /\ last' = [Call("has", l, nm, 0, FALSE) EXCEPT
                    !.how = IF has(Leaf(l), nm) THEN "true" ELSE "false"]
    /\ UNCHANGED << leaves, cells, memo >>

NextHas ==
    \/ \E d \in {"lit", "bin"} : TreeNew(d) /\ HeapOnly
    \/ \E l \in LeafIds, nm \in Names : Insert(l, nm, "Expr", OwnLeaf("lit")) /\ HeapOnly
    \/ \E l \in LeafIds, nm \in Names, f \in CompFns : Memoize(l, nm, "Expr", f) /\ HeapOnly
    \/ \E l \in LeafIds, nm \in Names : Has(l, nm) /\ HeapOnly

SpecHas == Init /\ [][NextHas]_vars

\* C26: has(name) on a Leaf answers true exactly when the named-child cache of
\* the Leaf holds an entry for the name, which is when named_at(name) finds
\* one: so it is true after an insert or a storing memoize for the name.
HasAgreesWithCache ==
    last.op = "has" =>
        ((last.how = "true") <=> (NamesGet(leaves[last.leaf], last.name, "Expr") # 0))

\* ---------------------------------------------------------------- is_empty
\* Cursor::is_empty: on a Leaf, !data.children.is_empty(); false otherwise.
is_empty(val) ==
    IF green(val).tag = "Leaf"
    THEN ~(DataChildren(LeafOf(green(val)).data) = << >>)
    ELSE FALSE

\* Cursor::empty(): Self::default().
CursorEmpty ==
    /\ CanAllocCursor
    /\ cells' = Append(cells, CursorEmptyValue)
    /\ last' = CursorCall("empty", 0, 0, Len(cells) + 1, "-", FALSE)
    /\ UNCHANGED << leaves, memo >>

\* a.is_empty(); the call record keeps the answer.
CursorIsEmpty(a) ==
    /\ last' = CursorCall("is_empty", a, 0, 0,
                          IF is_empty(cells[a]) THEN "true" ELSE "false", FALSE)
    /\ UNCHANGED << leaves, cells, memo >>

NextEmpty ==
    \/ CursorEmpty /\ HeapOnly
    \/ \E t \in {Leaf(1), OwnLeaf("lit"), OwnLeaf("dflt"), NoneTree, TokenTree("Expr")} :
            CursorNew(t) /\ HeapOnly
    \/ \E a \in CellIds, t \in {OwnLeaf("lit"), OwnLeaf("dflt")} : CursorReplace(a, t) /\ HeapOnly
    \/ \E a \in CellIds : CursorIsEmpty(a) /\ HeapOnly

SpecEmpty == Init /\ [][NextEmpty]_vars

SetNeverFaults ==
    last.op = "set" => ~last.fault

\* ----------------------------------------------------- clones of a GreenTree
\* GreenTree values the caller holds.
MaxTreeHandles == 3

\* A GreenTree the caller holds: the Leaf it is (the names and keys Arcs it
\* points to), how it was made, and the handle it was made from.
TreeHandle(l, how, h) == [leaf |-> l, how |-> how, of |-> h]
TreeIds == 1..Len(trees)
CanAllocTree == Len(trees) < MaxTreeHandles
TreesOnly == UNCHANGED << ctx, chain, acc, handles, rt, walk, frontVars >>

\* The caller takes hold of its Leaf.
TreeHold ==
    /\ trees = << >>
    /\ trees' = << TreeHandle(1, "new", 0) >>
    /\ last' = Call("hold", 1, NoName, 0, FALSE)
    /\ UNCHANGED << leaves, cells, memo >>

\* #[derive(Clone)] on GreenTree and AstLeaf: the clone of a Leaf holds clones
\* of the names and keys Arcs, the maps of its original.
TreeClone(h) ==
    /\ CanAllocTree
    /\ trees' = Append(trees, TreeHandle(trees[h].leaf, "clone", h))
    /\ last' = Call("clone", trees[h].leaf, NoName, trees[h].leaf, FALSE)
    /\ UNCHANGED << leaves, cells, memo >>

\* h.as_new_node(), kept by the caller.
TreeDetach(h) ==
    /\ CanAllocTree
    /\ TreeAsNewNode(trees[h].leaf)
    /\ trees' = Append(trees, TreeHandle(Len(leaves) + 1, "as_new_node", h))

NextShare ==
    \/ TreeHold /\ TreesOnly
    \/ \E h \in TreeIds : TreeClone(h) /\ TreesOnly
    \/ \E h \in TreeIds : TreeDetach(h) /\ TreesOnly
    \/ \E h \in TreeIds, nm \in Names, f \in CompFns :
            Memoize(trees[h].leaf, nm, "Expr", f) /\ HeapOnly
    \/ \E h \in TreeIds, nm \in Names :
            Insert(trees[h].leaf, nm, "Expr", OwnLeaf("lit")) /\ HeapOnly
    \/ \E h \in TreeIds, nm \in Names : NamedAt(trees[h].leaf, nm, "Expr") /\ HeapOnly
    \/ \E h \in TreeIds, k \in Keys, val \in Vals : InsertKey(trees[h].leaf, k, val) /\ HeapOnly
    \/ \E h \in TreeIds, k \in Keys : Key(trees[h].leaf, k) /\ HeapOnly

SpecShare == Init /\ [][NextShare]_vars

\* A clone is the Leaf of its original; the tree as_new_node returns is a
\* Leaf of its own.
ClonesShareLeaf ==
    \A h \in TreeIds :
        /\ trees[h].how = "clone" => trees[h].leaf = trees[trees[h].of].leaf
        /\ trees[h].how = "as_new_node" =>
                \A g \in TreeIds : (g # h /\ trees[g].leaf = trees[h].leaf) =>
                    (trees[g].how = "clone" /\ g > h)

\* A call through a handle finds what was stored through any handle of the
\* Leaf: memoize and named_at return the stored cell and nothing is computed;
\* key returns the stored value.
StoredIsObserved ==
    /\ \A l \in LeafIds, nm \in Names :
            (/\ leaves[l].names[nm] # NoEntry
             /\ last' # last
             /\ last'.op \in {"memoize", "named_at"}
             /\ last'.leaf = l
             /\ last'.name = nm)
                => /\ ~last'.fault
                   /\ last'.ret = leaves[l].names[nm].cell
                   /\ memo'[l][nm].calls = memo[l][nm].calls
                   /\ cells' = cells
    /\ \A l \in LeafIds, k \in Keys :
            (/\ leaves[l].keys[k] # NoVal
             /\ last' # last
             /\ last'.op = "key"
             /\ last'.leaf = l
             /\ last'.name = k)
                => /\ ~last'.fault
                   /\ last'.ret = leaves[l].keys[k]

\* C29: a clone of a Leaf shares the named-child cache and the side table of
\* its original, and as_new_node is the only copy that does not: an entry
\* stored by memoize, insert or insert_key through one handle of a Leaf is
\* found by memoize (without computing), named_at and key through another.
ClonesShareCaches ==
    [][ClonesShareLeaf' /\ StoredIsObserved]_vars

====
